---- MODULE Spec2Model ----
(***************************************************************************)
(* One execution of a service object (services.py): Service.execute,       *)
(* ServiceWithResult and the ServiceOutcome wrapper, together with the     *)
(* error classes of errors.py that the wrapper raises.                     *)
(*                                                                         *)
(* django.forms.Form (is_valid / full_clean) and django.db.transaction     *)
(* (atomic / on_commit) are library code the services call; they are       *)
(* modelled by their documented behaviour at the place the source calls    *)
(* them.                                                                   *)
(***************************************************************************)
EXTENDS Integers, Sequences, FiniteSets, TLC

\* ---------------------------------------------------------------- bounds
NumFields == 2      \* declared form fields of the service, in declared order
NumSteps == 2       \* longest custom_validations list
MaxIndex == 1       \* field_index values are 0..MaxIndex

\* ------------------------------------------------------ program constants
NoStatus == 0                    \* response_status = None (falsy, like 0)
NoIndex == -1                    \* field_index = None
VALIDATION_ERROR_STATUS == 400   \* ValidationError._default_response_status
NOT_FOUND_STATUS == 404          \* NotFound._default_response_status
OUTCOME_FALLBACK_STATUS == 400
STOP_PROCESS_FALLBACK_STATUS == 400   \* "self.response_status or 400"   \* the else-branch literal of ServiceOutcome.execute

Fields == 1..NumFields
Indexes == 0..MaxIndex
InputKinds == {"missing", "bad", "ok"}
REQUIRED_MESSAGE == "This field is required."
INVALID_MESSAGE == "Enter a whole number."
None == "None"
ResultValues == {"entity_a", "entity_b"}
StatusOverrides == {NoStatus, NOT_FOUND_STATUS}

\* ----------------------------------------------------------- error values
\* An error object: its class, its message and its errors / errors_dict
\* attribute ("" when the attribute is absent or None).
MkError(type, message, payload) ==
    [type |-> type, message |-> message, payload |-> payload]

\* Errors a custom validation step hands to add_error: a plain taxonomy
\* error (retrieve.py's NotFound(message=msg)) and an error that carries a
\* nested errors_dict.
StepErrors ==
    { MkError("NotFound", "Not found user", ""),
      MkError("ServiceObjectLogicError", "Invalid request data", "nested") }

\* getattr(error, 'errors', None) or getattr(error, 'errors_dict', None) or error
PreparedError(error) ==
    IF error.payload # "" THEN MkError("dict", "", error.payload) ELSE error

\* ------------------------------------------------------ error accumulator
\* self._errors: scope key -> list of errors, or scope key -> (index -> list).
ListValue(items) == [shape |-> "list", list |-> items, dict |-> <<>>]
DictValue(d) == [shape |-> "dict", list |-> <<>>, dict |-> d]
EmptyErrors == <<>>

\* dict.get(key) followed by a truth test
HasKey(errs, field) == field \in DOMAIN errs

\* The outcome of one add_error call: the new accumulator, or the
\* AttributeError raised by calling .append on a dict / .get on a list.
AddErrorBuggyReset(errs, field, error, field_index) ==
    [ok |-> TRUE, errors |-> (field :> ListValue(<<PreparedError(error)>>))]

AddErrorReshapes(errs, field, error, field_index) ==
    LET prepared_error == PreparedError(error) IN
    IF field_index = NoIndex
    THEN IF HasKey(errs, field) /\ errs[field].shape = "list"
         THEN [ok |-> TRUE,
               errors |-> [errs EXCEPT ![field] =
                   ListValue(Append(@.list, prepared_error))]]
         ELSE [ok |-> TRUE,
               errors |-> [f \in DOMAIN errs \cup {field} |->
                   IF f = field THEN ListValue(<<prepared_error>>)
                   ELSE errs[f]]]
    ELSE IF HasKey(errs, field) /\ errs[field].shape = "dict"
         THEN [ok |-> TRUE,
               errors |-> [errs EXCEPT ![field] =
                   DictValue([i \in DOMAIN @.dict \cup {field_index} |->
                       IF i \in DOMAIN @.dict /\ i = field_index
                       THEN Append(@.dict[i], prepared_error)
                       ELSE IF i = field_index THEN <<prepared_error>>
                       ELSE @.dict[i]])]]
         ELSE [ok |-> TRUE,
               errors |-> [f \in DOMAIN errs \cup {field} |->
                   IF f = field
                   THEN DictValue(field_index :> <<prepared_error>>)
                   ELSE errs[f]]]

AddErrorPrepends(errs, field, error, field_index) ==
    LET prepared_error == PreparedError(error) IN
    IF HasKey(errs, field) /\ errs[field].shape = "list"
    THEN [ok |-> TRUE,
          errors |-> [errs EXCEPT ![field] =
              ListValue(<<prepared_error>> \o @.list)]]
    ELSE AddErrorBuggyReset(errs, field, error, field_index)

AddError(errs, field, error, field_index) ==
    LET prepared_error == PreparedError(error) IN
    IF field_index = NoIndex
    THEN IF HasKey(errs, field)
         THEN IF errs[field].shape = "list"
              THEN [ok |-> TRUE,
                    errors |-> [errs EXCEPT ![field] =
                        ListValue(Append(@.list, prepared_error))]]
              ELSE [ok |-> FALSE, errors |-> errs]
         ELSE [ok |-> TRUE,
               errors |-> errs @@ (field :> ListValue(<<prepared_error>>))]
    ELSE IF HasKey(errs, field)
         THEN IF errs[field].shape = "dict"
              THEN IF field_index \in DOMAIN errs[field].dict
                   THEN [ok |-> TRUE,
                         errors |-> [errs EXCEPT ![field] =
                             DictValue([@.dict EXCEPT ![field_index] =
                                 Append(@, prepared_error)])]]
                   ELSE [ok |-> TRUE,
                         errors |-> [errs EXCEPT ![field] =
                             DictValue(@.dict @@
                                 (field_index :> <<prepared_error>>))]]
              ELSE [ok |-> FALSE, errors |-> errs]
         ELSE [ok |-> TRUE,
               errors |-> errs @@
                   (field :> DictValue(field_index :> <<prepared_error>>))]

\* ------------------------------------------------- form (field) validation
\* Field.clean of one declared field: the ValidationError it raises.
FieldError(kind) ==
    MkError("ValidationError",
            IF kind = "missing" THEN REQUIRED_MESSAGE ELSE INVALID_MESSAGE, "")

\* Form.full_clean -> _clean_fields: every declared field is cleaned in
\* declared order and each failure goes through self.add_error(name, e).
RECURSIVE CleanFields(_, _, _)
CleanFields(inp, k, errs) ==
    IF k > NumFields THEN errs
    ELSE CleanFields(inp, k + 1,
            IF inp[k] = "ok" THEN errs
            ELSE AddError(errs, k, FieldError(inp[k]), NoIndex).errors)

FullClean(inp) == CleanFields(inp, 1, EmptyErrors)

\* Form.is_valid(): is_bound and not self.errors
IsValid(errs) == errs = EmptyErrors

\* ------------------------------------------------------------ exceptions
NoExc == [type |-> "none", errors |-> EmptyErrors, response_status |-> NoStatus]

\* InvalidInputsError(errors, non_field_errors)
InvalidInputsError(errs) ==
    [type |-> "InvalidInputsError", errors |-> errs, response_status |-> NoStatus]

\* Error.__init__: response_status or self._default_response_status
ErrorInitStatusIgnoresOverride(default, response_status) == default

ErrorInitStatus(default, response_status) ==
    IF response_status # NoStatus THEN response_status ELSE default

\* ServiceObjectLogicError(errors_dict=..., response_status=...)
ServiceObjectLogicError(errs, response_status) ==
    [type |-> "ServiceObjectLogicError", errors |-> errs,
     response_status |-> ErrorInitStatus(VALIDATION_ERROR_STATUS, response_status)]

\* An exception raised inside process() that the framework does not
\* catalogue: AttributeError (add_error on a key of the other shape, or a
\* missing attribute), DoesNotExist (User.objects.get in _user).
BodyError(type) ==
    [type |-> type, errors |-> EmptyErrors, response_status |-> NoStatus]

BodyErrorTypes == {"AttributeError", "DoesNotExist"}

\* ------------------------------------------------- errors.py: taxonomy
INTERNAL_STATUS == 500           \* Error._default_response_status
UNAUTHORIZED_STATUS == 401       \* Unauthorized._default_response_status
AUTHENTICATION_FAILED_STATUS == 401  \* AuthenticationFailed._default_response_status
ACCESS_DENIED_STATUS == 423      \* AccessDenied._default_response_status
FORBIDDEN_STATUS == 403          \* ForbiddenError._default_response_status
EXTEND_FALLBACK_STATUS == 500    \* the except AttributeError branch of the converter

ErrorKinds ==
    {"Error", "Unauthorized", "AuthenticationFailed", "AccessDenied",
     "NotFound", "ValidationError", "ForbiddenError", "ServiceObjectLogicError"}

\* the _default_response_status property the class of the error resolves to
DefaultResponseStatusNotOverridden(kind) == INTERNAL_STATUS

DefaultResponseStatus(kind) ==
    CASE kind = "Unauthorized" -> UNAUTHORIZED_STATUS
      [] kind = "AuthenticationFailed" -> AUTHENTICATION_FAILED_STATUS
      [] kind = "AccessDenied" -> ACCESS_DENIED_STATUS
      [] kind = "NotFound" -> NOT_FOUND_STATUS
      [] kind \in {"ValidationError", "ServiceObjectLogicError"} ->
            VALIDATION_ERROR_STATUS
      [] kind = "ForbiddenError" -> FORBIDDEN_STATUS
      [] OTHER -> INTERNAL_STATUS

DefaultMessage(kind) ==
    CASE kind \in {"Unauthorized", "AuthenticationFailed"} ->
            "Authorization is required"
      [] kind \in {"AccessDenied", "ForbiddenError"} -> "Access denied"
      [] kind = "NotFound" -> "Resource not found"
      [] kind \in {"ValidationError", "ServiceObjectLogicError"} ->
            "Invalid request data"
      [] OTHER -> "We are sorry but something went wrong"

DefaultTranslationKey(kind) ==
    CASE kind = "Unauthorized" -> "unauthorized"
      [] kind = "AuthenticationFailed" -> "authentication_failed"
      [] kind = "AccessDenied" -> "locked"
      [] kind = "NotFound" -> "not_found"
      [] kind \in {"ValidationError", "ServiceObjectLogicError"} ->
            "invalid_request_data"
      [] kind = "ForbiddenError" -> "forbidden"
      [] OTHER -> "internal_server_error"

\* value or default, for the string arguments (None is the falsy value)
OrDefault(value, default) == IF value # None THEN value ELSE default

\* Arguments a caller passes to a taxonomy constructor (None / NoStatus:
\* the argument is left out).
TranslationKeyArgs == {None, "custom_key"}
MessageArgs == {None, "custom message"}
DebugMessageArgs == {None, "debug detail"}
ResponseStatusArgs == {NoStatus, 418}

TaxonomyAttrs ==
    {"translation_key", "message", "debug_message", "details",
     "additional_info", "response_status", "errors_dict"}

\* Error.__init__: the instance and, from super().__init__(self.message),
\* its string form.
ErrorInit(kind, translation_key, message, debug_message, response_status) ==
    [type |-> kind,
     attrs |-> TaxonomyAttrs,
     translation_key |-> OrDefault(translation_key, DefaultTranslationKey(kind)),
     message |-> OrDefault(message, DefaultMessage(kind)),
     debug_message |-> debug_message,
     details |-> None,
     additional_info |-> None,
     response_status |->
        ErrorInitStatus(DefaultResponseStatus(kind), response_status),
     str |-> OrDefault(message, DefaultMessage(kind))]

\* An exception that is not of the taxonomy: none of the attributes exist.
OtherException(type, str) ==
    [type |-> type, attrs |-> {}, translation_key |-> None, message |-> None,
     debug_message |-> None, details |-> None, additional_info |-> None,
     response_status |-> NoStatus, str |-> str]

OtherExceptionStrings == {"matching query does not exist", "no attribute"}

\* traceback.format_exception(...): the header, the frames, the final line.
FormatException(e) ==
    <<"Traceback (most recent call last):", "frame: handler", "frame: raise",
      e.str>>

\* [line for index, line in enumerate(lines) if index != 1]
ElideSecond(lines) ==
    [i \in 1..(Len(lines) - 1) |-> IF i < 2 THEN lines[i] ELSE lines[i + 1]]

\* extend_exception_for_response(exception), called while the exception is
\* being handled (sys.exc_info() is that exception).
HasAttr(e, name) == name \in e.attrs

ExtendPayload(e) ==
    [type |-> e.type,
     message |-> IF HasAttr(e, "message") THEN e.message
                 ELSE "We are sorry but something went wrong",
     translation_key |-> IF HasAttr(e, "translation_key") THEN e.translation_key
                         ELSE "internal_server_error",
     debug_message |-> IF HasAttr(e, "debug_message") THEN e.debug_message
                       ELSE e.str,
     backtrace |-> ElideSecond(FormatException(e)),
     details |-> IF HasAttr(e, "details") THEN e.details ELSE None,
     additional_info |-> IF HasAttr(e, "additional_info") THEN e.additional_info
                         ELSE None,
     response_status |-> IF HasAttr(e, "response_status") THEN e.response_status
                         ELSE EXTEND_FALLBACK_STATUS]

NoCtor == [kind |-> None, translation_key |-> None, message |-> None,
           debug_message |-> None, response_status |-> NoStatus]
NoExcObject == OtherException(None, None)
NoPayload == [type |-> None]

\* ------------------------------------------- two executions side by side
Execs == {1, 2}
\* What the caller passes for a field: nothing, or one of two values.
InputValues == {"missing", "value_a", "value_b"}
KindOf(value) == IF value = "missing" THEN "missing" ELSE "ok"

\* cls(inputs): a new instance with its own attributes.
NewInstance(inp) ==
    [pc |-> "constructed", inputs |-> inp, errors |-> EmptyErrors,
     cleaned_data |-> <<>>, result |-> None, response_status |-> NoStatus,
     step |-> 1, added |-> <<>>]

NoInstances == [e \in Execs |-> NewInstance([f \in Fields |-> "missing"])]

\* cleaned_data after full_clean: the fields whose cleaning succeeded
CleanedData(inp) ==
    [f \in {g \in Fields : inp[g] # "missing"} |-> inp[f]]

\* ------------------------------------------- api/services/user/retrieve.py
MaxUserId == 2

UserIds == 1..MaxUserId
NoId == 0

\* id = forms.IntegerField(): the first declared field
IdField == 1

\* custom_validations = ['validate_presence_user']
VALIDATE_PRESENCE_USER == 1
RetrieveCustomValidations == <<VALIDATE_PRESENCE_USER>>

\* f"Not found user with id = {self.cleaned_data['id']}"
NotFoundMessage(id) == "Not found user with id = " \o ToString(id)

\* the User row with this id
UserEntity(id) == "user_" \o ToString(id)

\* RetrieveUserService and its bases define no attribute _profile.
HasProfile == FALSE

\* ------------------------------------------------------------------ state
VARIABLES
    db_transaction,      \* Service.db_transaction of the executed class
    run_post_process,    \* Service.run_post_process of the executed class
    custom_validations,  \* ServiceWithResult.custom_validations (step names)
    inputs,              \* the inputs dictionary: per declared field, its kind
    viaOutcome,          \* TRUE: the caller constructs ServiceOutcome(cls, inputs)
    outer,               \* the caller's enclosing atomic block, if any
    pc,                  \* position of the execution
    errors,              \* instance._errors
    result,              \* instance.result
    response_status,     \* instance.response_status
    step,                \* index of the next entry of custom_validations
    invoked,             \* validation steps invoked so far, in order
    scope,               \* the atomic block opened by _process_context
    hooks,               \* callbacks registered with transaction.on_commit
    thrown,              \* the exception process() raised, if it raised
    raised,              \* the exception that left execute() / ServiceOutcome()
    o_result,            \* ServiceOutcome._result
    o_response_status,   \* ServiceOutcome._response_status
    o_errors,            \* ServiceOutcome._errors
    call,                \* the last add_error call made by a validation step
    log,                 \* observable events of the execution, in order
    ctor,                \* arguments of the last taxonomy error constructed
    exc,                 \* the exception handed to extend_exception_for_response
    payload,             \* its response_dict and response_status once extended
    inst,                \* the instances of two executions running side by side
    service_class,       \* the class handed to execute() / ServiceOutcome()
    input_id,            \* inputs['id'] once cleaned to an integer, else 0
    users                \* ids of the rows of the User table

vars == <<db_transaction, run_post_process, custom_validations, inputs,
          viaOutcome, outer, pc, errors, result, response_status, step,
          invoked, scope, hooks, thrown, raised, o_result, o_response_status,
          o_errors, call, log, ctor, exc, payload, inst, service_class,
          input_id, users>>

taxonomy_vars == <<ctor, exc, payload>>
config == <<db_transaction, run_post_process, custom_validations, inputs,
            viaOutcome, service_class, input_id, users>>
outcome_vars == <<o_result, o_response_status, o_errors>>

NoCall == [seq |-> 0, field |-> 0, error |-> MkError("", "", ""),
           field_index |-> NoIndex, prior |-> EmptyErrors, ok |-> TRUE]

\* cls(inputs, files): Form.__init__ and ServiceWithResult.__init__, and the
\* fresh ServiceOutcome fields when the caller goes through the wrapper.
Init ==
    /\ \/ /\ service_class = "ServiceWithResult"
          /\ db_transaction \in BOOLEAN
          /\ run_post_process \in BOOLEAN
          /\ \E n \in 0..NumSteps : custom_validations = [i \in 1..n |-> i]
          /\ inputs \in [Fields -> InputKinds]
          /\ input_id = NoId
          /\ users = {}
       \/ /\ service_class = "RetrieveUserService"
          /\ db_transaction = TRUE
          /\ run_post_process = TRUE
          /\ custom_validations = RetrieveCustomValidations
          /\ \E kind \in InputKinds :
                inputs = [f \in Fields |-> IF f = IdField THEN kind ELSE "ok"]
          /\ input_id \in IF inputs[IdField] = "ok" THEN UserIds ELSE {NoId}
          /\ users \in SUBSET UserIds
    /\ viaOutcome \in BOOLEAN
    /\ outer \in {"none", "open"}
    /\ pc = "constructed"
    /\ errors = EmptyErrors
    /\ result = None
    /\ response_status = NoStatus
    /\ step = 1
    /\ invoked = <<>>
    /\ scope = "none"
    /\ hooks = 0
    /\ thrown = NoExc
    /\ raised = NoExc
    /\ o_result = None
    /\ o_response_status = NoStatus
    /\ o_errors = EmptyErrors
    /\ call = NoCall
    /\ log = <<>>
    /\ ctor = NoCtor
    /\ exc = NoExcObject
    /\ payload = NoPayload
    /\ inst = NoInstances

\* ------------------------------------------------------- Service.execute
\* instance.service_clean(): is_valid() runs full_clean; any field error
\* raises InvalidInputsError before _process_context is entered.
ServiceCleanNeverRaises ==
    /\ pc = "constructed"
    /\ errors' = FullClean(inputs)
    /\ pc' = "cleaned"
    /\ log' = Append(log, "service_clean")
    /\ UNCHANGED <<taxonomy_vars, inst, config, outer, result, response_status, step, invoked,
                   scope, hooks, thrown, raised, outcome_vars, call>>

ServiceClean ==
    /\ pc = "constructed"
    /\ errors' = FullClean(inputs)
    /\ IF IsValid(errors')
       THEN /\ pc' = "cleaned"
            /\ raised' = raised
            /\ log' = Append(log, "service_clean")
       ELSE /\ pc' = "raised"
            /\ raised' = InvalidInputsError(errors')
            /\ log' = log \o <<"service_clean", "execute_raise">>
    /\ UNCHANGED <<taxonomy_vars, inst, config, outer, result, response_status, step, invoked,
                   scope, hooks, thrown, outcome_vars, call>>

\* "with instance._process_context(): return instance.process()" up to the
\* call of process(): with db_transaction the atomic block is entered and
\* post_process is registered with on_commit.
EnterContextRunsHookAtOnce ==
    /\ pc = "cleaned"
    /\ pc' = "process"
    /\ IF db_transaction
       THEN /\ scope' = "open"
            /\ hooks' = hooks
            /\ log' = IF run_post_process
                       THEN log \o <<"atomic_enter", "post_process", "process">>
                       ELSE log \o <<"atomic_enter", "process">>
       ELSE /\ log' = Append(log, "process")
            /\ UNCHANGED <<scope, hooks>>
    /\ UNCHANGED <<taxonomy_vars, inst, config, outer, errors, result, response_status, step,
                   invoked, thrown, raised, outcome_vars, call>>

EnterContext ==
    /\ pc = "cleaned"
    /\ pc' = "process"
    /\ IF db_transaction
       THEN /\ scope' = "open"
            /\ hooks' = IF run_post_process THEN hooks + 1 ELSE hooks
            /\ log' = log \o <<"atomic_enter", "process">>
       ELSE /\ log' = Append(log, "process")
            /\ UNCHANGED <<scope, hooks>>
    /\ UNCHANGED <<taxonomy_vars, inst, config, outer, errors, result, response_status, step,
                   invoked, thrown, raised, outcome_vars, call>>

\* ------------------------------------- process(): run_custom_validations
\* getattr(self, custom_validation)() for the next entry of the list.
InStepUntilFirstError ==
    pc = "process" /\ step <= Len(custom_validations) /\ errors = EmptyErrors

InStep == pc = "process" /\ step <= Len(custom_validations)

Invoke ==
    /\ invoked' = Append(invoked, custom_validations[step])
    /\ step' = step + 1

\* An exception leaves process().
Raise(exception) ==
    /\ thrown' = exception
    /\ pc' = "body_raised"
    /\ log' = Append(log, "process_raise")

\* A step whose check passes: it adds nothing.
ValidationPasses ==
    /\ service_class = "ServiceWithResult"
    /\ InStep
    /\ Invoke
    /\ UNCHANGED <<taxonomy_vars, inst, config, outer, pc, errors, result, response_status, scope,
                   hooks, thrown, raised, outcome_vars, call, log>>

\* The effect of a step that calls self.add_error(field, error, field_index):
\* the accumulator grows, or the AttributeError of add_error leaves the step.
StepAddsError(field, error, field_index) ==
    LET r == AddError(errors, field, error, field_index) IN
    /\ call' = [seq |-> call.seq + 1, field |-> field, error |-> error,
                field_index |-> field_index, prior |-> errors, ok |-> r.ok]
    /\ errors' = r.errors
    /\ IF r.ok
       THEN UNCHANGED <<pc, thrown, log>>
       ELSE Raise(BodyError("AttributeError"))

\* A step whose check fails: self.add_error(field, error), as
\* validate_presence_user does; the step may also set self.response_status.
ValidationAddsError ==
    /\ service_class = "ServiceWithResult"
    /\ InStep
    /\ Invoke
    /\ \E field \in Fields, error \in StepErrors, status \in StatusOverrides :
          /\ StepAddsError(field, error, NoIndex)
          /\ response_status' =
                IF status = NoStatus THEN response_status ELSE status
    /\ UNCHANGED <<taxonomy_vars, inst, config, outer, result, scope, hooks, raised, outcome_vars>>

\* A step that reports against an indexed input:
\* self.add_error(field, error, field_index).
ValidationAddsIndexedError ==
    /\ service_class = "ServiceWithResult"
    /\ InStep
    /\ Invoke
    /\ \E field \in Fields, error \in StepErrors, field_index \in Indexes :
          StepAddsError(field, error, field_index)
    /\ UNCHANGED <<taxonomy_vars, inst, config, outer, result, response_status, scope, hooks,
                   raised, outcome_vars>>

\* A step that raises (User.objects.get raises DoesNotExist in _user).
ValidationRaises ==
    /\ service_class = "ServiceWithResult"
    /\ InStep
    /\ Invoke
    /\ Raise(BodyError("DoesNotExist"))
    /\ UNCHANGED <<taxonomy_vars, inst, config, outer, errors, result, response_status, scope,
                   hooks, raised, outcome_vars, call>>

\* ------------------------------------------- process(): stop_process()
\* A process() that calls self.stop_process() once its steps have run:
\* "if bool(self._errors): raise ServiceObjectLogicError(errors_dict=
\* self._errors, response_status=self.response_status or 400)
\* else: return self".
StopProcessNeverRaises ==
    /\ service_class = "ServiceWithResult"
    /\ pc = "process" /\ step > Len(custom_validations)
    /\ \A i \in 1..Len(log) : log[i] # "stop_process"
    /\ log' = Append(log, "stop_process")
    /\ UNCHANGED <<pc, thrown>>
    /\ UNCHANGED <<taxonomy_vars, inst, config, outer, errors, result,
                   response_status, step, invoked, scope, hooks, raised,
                   outcome_vars, call>>

StopProcess ==
    /\ service_class = "ServiceWithResult"
    /\ pc = "process" /\ step > Len(custom_validations)
    /\ \A i \in 1..Len(log) : log[i] # "stop_process"
    /\ IF errors # EmptyErrors
       THEN /\ thrown' = ServiceObjectLogicError(errors,
                    IF response_status # NoStatus THEN response_status
                    ELSE STOP_PROCESS_FALLBACK_STATUS)
            /\ pc' = "body_raised"
            /\ log' = log \o <<"stop_process", "process_raise">>
       ELSE /\ log' = Append(log, "stop_process")
            /\ UNCHANGED <<pc, thrown>>
    /\ UNCHANGED <<taxonomy_vars, inst, config, outer, errors, result,
                   response_status, step, invoked, scope, hooks, raised,
                   outcome_vars, call>>

\* ------------------------------------------ process(): the domain logic
\* if self.is_valid(): self.result = <value>
\* return self
AfterSteps == pc = "process" /\ step > Len(custom_validations)

ProcessReturns ==
    /\ service_class = "ServiceWithResult"
    /\ AfterSteps
    /\ IF IsValid(errors)
       THEN /\ \E value \in ResultValues : result' = value
            /\ log' = log \o <<"domain_logic", "process_return">>
       ELSE /\ result' = result
            /\ log' = Append(log, "process_return")
    /\ pc' = "body_returned"
    /\ UNCHANGED <<taxonomy_vars, inst, config, outer, errors, response_status, step, invoked,
                   scope, hooks, thrown, raised, outcome_vars, call>>

\* The domain logic raises (an unstructured failure inside process()).
ProcessRaises ==
    /\ service_class = "ServiceWithResult"
    /\ AfterSteps
    /\ IsValid(errors)
    /\ \E type \in BodyErrorTypes :
          /\ thrown' = BodyError(type)
          /\ pc' = "body_raised"
          /\ log' = log \o <<"domain_logic", "process_raise">>
    /\ UNCHANGED <<taxonomy_vars, inst, config, outer, errors, result, response_status, step,
                   invoked, scope, hooks, raised, outcome_vars, call>>

\* ------------------------------------- RetrieveUserService.process()
\* User.objects.get(id=self.cleaned_data['id']): the row, or DoesNotExist.
UserObjectsGet(id) ==
    IF id \in users THEN [ok |-> TRUE, user |-> UserEntity(id)]
    ELSE [ok |-> FALSE, user |-> None]

\* validate_presence_user: "if not self._user: self.add_error('id',
\* NotFound(message=msg))"; evaluating self._user may raise.
ValidatePresenceUser ==
    /\ service_class = "RetrieveUserService"
    /\ InStep
    /\ custom_validations[step] = VALIDATE_PRESENCE_USER
    /\ Invoke
    /\ LET r == UserObjectsGet(input_id) IN
       IF ~r.ok
       THEN /\ Raise(BodyError("DoesNotExist"))
            /\ UNCHANGED <<errors, call>>
       ELSE IF r.user = None
            THEN StepAddsError(IdField,
                     MkError("NotFound", NotFoundMessage(input_id), ""),
                     NoIndex)
            ELSE UNCHANGED <<pc, thrown, log, errors, call>>
    /\ UNCHANGED <<taxonomy_vars, inst, config, outer, result, response_status,
                   scope, hooks, raised, outcome_vars>>

\* "if self.is_valid(): self.result = self._profile" and "return self";
\* reading an attribute the instance does not have raises AttributeError.
RetrieveProcess ==
    /\ service_class = "RetrieveUserService"
    /\ AfterSteps
    /\ IF IsValid(errors) /\ ~HasProfile
       THEN /\ Raise(BodyError("AttributeError"))
            /\ result' = result
       ELSE /\ result' = IF IsValid(errors) THEN UserEntity(input_id)
                         ELSE result
            /\ pc' = "body_returned"
            /\ log' = Append(log, "process_return")
            /\ thrown' = thrown
    /\ UNCHANGED <<taxonomy_vars, inst, config, outer, errors, response_status,
                   step, invoked, scope, hooks, raised, outcome_vars, call>>

\* ------------------------------------- _process_context after its yield
\* post_process() called n times, as log entries.
RECURSIVE RunHooks(_)
RunHooks(n) == IF n = 0 THEN <<>> ELSE <<"post_process">> \o RunHooks(n - 1)

\* process() returned: the atomic block exits normally (commit, or release
\* of the savepoint inside an enclosing block; on_commit callbacks run with
\* the outermost commit); without a transaction post_process() is called.
\* Then execute() returns what process() returned.
ExitContextReturnSkipsHook ==
    /\ pc = "body_returned"
    /\ pc' = "returned"
    /\ IF db_transaction
       THEN /\ scope' = "committed"
            /\ IF outer = "none"
               THEN /\ log' = Append(log, "commit") \o RunHooks(hooks)
                                \o <<"execute_return">>
                    /\ hooks' = 0
               ELSE /\ log' = log \o <<"savepoint_commit", "execute_return">>
                    /\ hooks' = hooks
       ELSE /\ log' = Append(log, "execute_return")
            /\ UNCHANGED <<scope, hooks>>
    /\ UNCHANGED <<taxonomy_vars, inst, config, outer, errors, result, response_status, step,
                   invoked, thrown, raised, outcome_vars, call>>

ExitContextReturn ==
    /\ pc = "body_returned"
    /\ pc' = "returned"
    /\ IF db_transaction
       THEN /\ scope' = "committed"
            /\ IF outer = "none"
               THEN /\ log' = Append(log, "commit") \o RunHooks(hooks)
                                \o <<"execute_return">>
                    /\ hooks' = 0
               ELSE /\ log' = log \o <<"savepoint_commit", "execute_return">>
                    /\ hooks' = hooks
       ELSE /\ log' = IF run_post_process
                       THEN log \o <<"post_process", "execute_return">>
                       ELSE Append(log, "execute_return")
            /\ UNCHANGED <<scope, hooks>>
    /\ UNCHANGED <<taxonomy_vars, inst, config, outer, errors, result, response_status, step,
                   invoked, thrown, raised, outcome_vars, call>>

\* process() raised: the exception is thrown into the generator at the
\* yield; the atomic block rolls back, the callbacks registered inside it are
\* dropped, and the exception leaves execute() unchanged.
ExitContextRaiseKeepsHooks ==
    /\ pc = "body_raised"
    /\ pc' = "raised"
    /\ raised' = thrown
    /\ IF db_transaction
       THEN /\ scope' = "rolledback"
            /\ hooks' = hooks
            /\ log' = log \o <<"rollback", "execute_raise">>
       ELSE /\ log' = Append(log, "execute_raise")
            /\ UNCHANGED <<scope, hooks>>
    /\ UNCHANGED <<taxonomy_vars, inst, config, outer, errors, result, response_status, step,
                   invoked, thrown, outcome_vars, call>>

ExitContextRaiseSwallows ==
    /\ pc = "body_raised"
    /\ pc' = "returned"
    /\ IF db_transaction
       THEN /\ scope' = "committed"
            /\ log' = log \o <<"commit", "execute_return">>
            /\ hooks' = 0
       ELSE /\ log' = Append(log, "execute_return")
            /\ UNCHANGED <<scope, hooks>>
    /\ UNCHANGED <<taxonomy_vars, inst, config, outer, errors, result, response_status, step,
                   invoked, thrown, raised, outcome_vars, call>>

ExitContextRaise ==
    /\ pc = "body_raised"
    /\ pc' = "raised"
    /\ raised' = thrown
    /\ IF db_transaction
       THEN /\ scope' = "rolledback"
            /\ hooks' = 0
            /\ log' = log \o <<"rollback", "execute_raise">>
       ELSE /\ log' = Append(log, "execute_raise")
            /\ UNCHANGED <<scope, hooks>>
    /\ UNCHANGED <<taxonomy_vars, inst, config, outer, errors, result, response_status, step,
                   invoked, thrown, outcome_vars, call>>

\* ------------------------------------------------ ServiceOutcome.execute
\* hasattr(self, "response_status"): the class defines the property.
OutcomeHasResponseStatus == TRUE

\* The rest of ServiceOutcome.execute once service_object.execute(...) has
\* returned the service; an exception of execute() passes through
\* __init__ untouched, since nothing catches it.
OutcomeExecuteNeverRaises ==
    /\ pc = "returned"
    /\ viaOutcome
    /\ o_response_status' = response_status
    /\ o_result' = result
    /\ pc' = "outcome_done"
    /\ raised' = raised
    /\ log' = Append(log, "outcome_return")
    /\ UNCHANGED <<taxonomy_vars, inst, config, outer, errors, result, response_status, step,
                   invoked, scope, hooks, thrown, o_errors, call>>

OutcomeExecuteDropsResult ==
    /\ pc = "returned"
    /\ viaOutcome
    /\ o_response_status' = response_status
    /\ IF errors # EmptyErrors
       THEN /\ raised' = ServiceObjectLogicError(errors, o_response_status')
            /\ pc' = "raised"
            /\ log' = Append(log, "outcome_raise")
       ELSE /\ pc' = "outcome_done"
            /\ raised' = raised
            /\ log' = Append(log, "outcome_return")
    /\ UNCHANGED <<taxonomy_vars, inst, config, outer, errors, result, response_status, step,
                   invoked, scope, hooks, thrown, o_result, o_errors, call>>

OutcomeExecute ==
    /\ pc = "returned"
    /\ viaOutcome
    /\ o_response_status' = response_status
    /\ IF errors # EmptyErrors
       THEN /\ raised' = ServiceObjectLogicError(errors,
                    IF OutcomeHasResponseStatus THEN o_response_status'
                    ELSE OUTCOME_FALLBACK_STATUS)
            /\ pc' = "raised"
            /\ o_result' = o_result
            /\ log' = Append(log, "outcome_raise")
       ELSE /\ o_result' = result
            /\ pc' = "outcome_done"
            /\ raised' = raised
            /\ log' = Append(log, "outcome_return")
    /\ UNCHANGED <<taxonomy_vars, inst, config, outer, errors, result, response_status, step,
                   invoked, scope, hooks, thrown, o_errors, call>>

\* ServiceOutcome.valid: not bool(self._errors)
OutcomeValid == o_errors = EmptyErrors

\* ------------------------------------------- the caller's enclosing block
\* Control is back with the caller: execute() or ServiceOutcome() returned
\* or raised.
Finished ==
    \/ pc \in {"raised", "outcome_done"}
    \/ pc = "returned" /\ ~viaOutcome

\* The enclosing atomic block commits: the pending on_commit callbacks run.
OuterCommit ==
    /\ Finished
    /\ outer = "open"
    /\ outer' = "committed"
    /\ log' = Append(log, "outer_commit") \o RunHooks(hooks)
    /\ hooks' = 0
    /\ UNCHANGED <<taxonomy_vars, inst, config, pc, errors, result, response_status, step, invoked,
                   scope, thrown, raised, outcome_vars, call>>

\* The enclosing atomic block rolls back: the pending callbacks are dropped.
OuterRollback ==
    /\ Finished
    /\ outer = "open"
    /\ outer' = "rolledback"
    /\ log' = Append(log, "outer_rollback")
    /\ hooks' = 0
    /\ UNCHANGED <<taxonomy_vars, inst, config, pc, errors, result, response_status, step, invoked,
                   scope, thrown, raised, outcome_vars, call>>

Next ==
    \/ ServiceClean
    \/ EnterContext
    \/ ValidationPasses
    \/ ValidationAddsError
    \/ ValidationAddsIndexedError
    \/ ValidationRaises
    \/ ProcessReturns
    \/ StopProcess
    \/ ProcessRaises
    \/ ValidatePresenceUser
    \/ RetrieveProcess
    \/ ExitContextReturn
    \/ ExitContextRaise
    \/ OutcomeExecute
    \/ OuterCommit
    \/ OuterRollback

Spec == Init /\ [][Next]_vars

\* --------------------------------------------- errors.py on its own
\* The taxonomy and the converter are pure: they are exercised from every
\* constructor call, with the service left at its defaults.
service_vars == <<db_transaction, run_post_process, custom_validations, inputs,
                  viaOutcome, outer, pc, errors, result, response_status, step,
                  invoked, scope, hooks, thrown, raised, o_result,
                  o_response_status, o_errors, call, log, service_class,
                  input_id, users>>

InitErrors ==
    /\ db_transaction = TRUE
    /\ run_post_process = TRUE
    /\ custom_validations = <<>>
    /\ inputs = [f \in Fields |-> "ok"]
    /\ viaOutcome = FALSE
    /\ outer = "none"
    /\ pc = "constructed"
    /\ errors = EmptyErrors
    /\ result = None
    /\ response_status = NoStatus
    /\ step = 1
    /\ invoked = <<>>
    /\ scope = "none"
    /\ hooks = 0
    /\ thrown = NoExc
    /\ raised = NoExc
    /\ o_result = None
    /\ o_response_status = NoStatus
    /\ o_errors = EmptyErrors
    /\ call = NoCall
    /\ log = <<>>
    /\ ctor = NoCtor
    /\ exc = NoExcObject
    /\ payload = NoPayload
    /\ inst = NoInstances
    /\ service_class = "ServiceWithResult"
    /\ input_id = NoId
    /\ users = {}

\* raise Kind(translation_key=..., message=..., debug_message=...,
\*            response_status=...)
RaiseTaxonomyError ==
    /\ exc = NoExcObject
    /\ \E kind \in ErrorKinds, translation_key \in TranslationKeyArgs,
          message \in MessageArgs, debug_message \in DebugMessageArgs,
          status \in ResponseStatusArgs :
          /\ ctor' = [kind |-> kind, translation_key |-> translation_key,
                      message |-> message, debug_message |-> debug_message,
                      response_status |-> status]
          /\ exc' = ErrorInit(kind, translation_key, message, debug_message,
                              status)
    /\ UNCHANGED <<service_vars, inst, payload>>

\* an exception of another class is raised
RaiseOtherException ==
    /\ exc = NoExcObject
    /\ \E type \in BodyErrorTypes, str \in OtherExceptionStrings :
          exc' = OtherException(type, str)
    /\ UNCHANGED <<service_vars, inst, ctor, payload>>

\* except Exception as e: extend_exception_for_response(e)
ExtendExceptionForResponse ==
    /\ exc # NoExcObject
    /\ payload = NoPayload
    /\ payload' = ExtendPayload(exc)
    /\ exc' = [exc EXCEPT !.attrs = @ \cup {"response_dict", "response_status"},
                          !.response_status = payload'.response_status]
    /\ UNCHANGED <<service_vars, inst, ctor>>

NextErrors ==
    \/ RaiseTaxonomyError
    \/ RaiseOtherException
    \/ ExtendExceptionForResponse

SpecErrors == InitErrors /\ [][NextErrors]_vars

\* ------------------------------------ Service.execute, twice, interleaved
\* Two callers execute the same ServiceWithResult class (one declared
\* validation step, as RetrieveUserService) with different inputs; the
\* steps of the two executions interleave freely.
InitConcurrent ==
    /\ db_transaction = TRUE
    /\ run_post_process = TRUE
    /\ custom_validations = <<1>>
    /\ inputs = [f \in Fields |-> "ok"]
    /\ viaOutcome = FALSE
    /\ outer = "none"
    /\ pc = "constructed"
    /\ errors = EmptyErrors
    /\ result = None
    /\ response_status = NoStatus
    /\ step = 1
    /\ invoked = <<>>
    /\ scope = "none"
    /\ hooks = 0
    /\ thrown = NoExc
    /\ raised = NoExc
    /\ o_result = None
    /\ o_response_status = NoStatus
    /\ o_errors = EmptyErrors
    /\ call = NoCall
    /\ log = <<>>
    /\ ctor = NoCtor
    /\ exc = NoExcObject
    /\ payload = NoPayload
    /\ \E inp \in [Execs -> [Fields -> InputValues]] :
          /\ inp[1] # inp[2]
          /\ inst = [e \in Execs |-> NewInstance(inp[e])]
    /\ service_class = "ServiceWithResult"
    /\ input_id = NoId
    /\ users = {}

\* instance.service_clean() of execution e
ConcurrentServiceClean(e) ==
    LET errs == FullClean([f \in Fields |-> KindOf(inst[e].inputs[f])]) IN
    /\ inst[e].pc = "constructed"
    /\ inst' = [inst EXCEPT ![e].errors = errs,
                            ![e].cleaned_data = CleanedData(inst[e].inputs),
                            ![e].pc = IF IsValid(errs) THEN "process"
                                      ELSE "raised"]
    /\ UNCHANGED <<service_vars, taxonomy_vars>>

ConcurrentInStep(e) ==
    inst[e].pc = "process" /\ inst[e].step <= Len(custom_validations)

\* a validation step of execution e whose check passes
ConcurrentValidationPasses(e) ==
    /\ ConcurrentInStep(e)
    /\ inst' = [inst EXCEPT ![e].step = @ + 1]
    /\ UNCHANGED <<service_vars, taxonomy_vars>>

\* a validation step of execution e calls self.add_error(...) and may set
\* self.response_status
ConcurrentValidationAddsErrorOnClass(e) ==
    /\ ConcurrentInStep(e)
    /\ \E field \in Fields, error \in StepErrors,
          field_index \in {NoIndex} \cup Indexes, status \in StatusOverrides :
          LET r == AddError(inst[e].errors, field, error, field_index) IN
          inst' = [x \in Execs |->
                     IF x = e
                     THEN [inst[x] EXCEPT
                             !.errors = r.errors,
                             !.response_status =
                                 IF status = NoStatus THEN @ ELSE status,
                             !.step = @ + 1,
                             !.added = Append(@, [field |-> field,
                                 error |-> error, field_index |-> field_index,
                                 status |-> status])]
                     ELSE [inst[x] EXCEPT !.errors = r.errors]]
    /\ UNCHANGED <<service_vars, taxonomy_vars>>

ConcurrentValidationAddsError(e) ==
    /\ ConcurrentInStep(e)
    /\ \E field \in Fields, error \in StepErrors,
          field_index \in {NoIndex} \cup Indexes, status \in StatusOverrides :
          LET r == AddError(inst[e].errors, field, error, field_index) IN
          inst' = [inst EXCEPT
                     ![e].errors = r.errors,
                     ![e].response_status =
                         IF status = NoStatus THEN @ ELSE status,
                     ![e].step = @ + 1,
                     ![e].pc = IF r.ok THEN @ ELSE "raised",
                     ![e].added = Append(@, [field |-> field, error |-> error,
                         field_index |-> field_index, status |-> status])]
    /\ UNCHANGED <<service_vars, taxonomy_vars>>

\* a validation step of execution e raises
ConcurrentValidationRaises(e) ==
    /\ ConcurrentInStep(e)
    /\ inst' = [inst EXCEPT ![e].step = @ + 1, ![e].pc = "raised"]
    /\ UNCHANGED <<service_vars, taxonomy_vars>>

\* the rest of process() of execution e: the entity looked up by the
\* cleaned id becomes the result when the instance is valid
ConcurrentProcessReturns(e) ==
    /\ inst[e].pc = "process"
    /\ inst[e].step > Len(custom_validations)
    /\ inst' = [inst EXCEPT
                  ![e].result = IF IsValid(inst[e].errors)
                                THEN inst[e].cleaned_data[1] ELSE @,
                  ![e].pc = "returned"]
    /\ UNCHANGED <<service_vars, taxonomy_vars>>

NextConcurrent ==
    \E e \in Execs :
        \/ ConcurrentServiceClean(e)
        \/ ConcurrentValidationPasses(e)
        \/ ConcurrentValidationAddsError(e)
        \/ ConcurrentValidationRaises(e)
        \/ ConcurrentProcessReturns(e)

SpecConcurrent == InitConcurrent /\ [][NextConcurrent]_vars

\* ============================================================ properties
Has(event) == \E i \in 1..Len(log) : log[i] = event
Count(event) == Cardinality({i \in 1..Len(log) : log[i] = event})
\* every occurrence of `later` has an occurrence of `earlier` before it
Precedes(earlier, later) ==
    \A i \in 1..Len(log) :
        log[i] = later => \E j \in 1..(i - 1) : log[j] = earlier

\* the error entries held under one scope key, whatever its shape
Entries(value) ==
    {value.list[i] : i \in DOMAIN value.list}
        \cup UNION {{value.dict[k][i] : i \in DOMAIN value.dict[k]} :
                        k \in DOMAIN value.dict}

FieldsValid == \A f \in Fields : inputs[f] = "ok"
\* a custom validation step has added an error to the accumulator
StepAddedError == FieldsValid /\ errors # EmptyErrors
\* execute() has returned the service to its caller
ExecuteReturned == Has("execute_return")

\* C1: when the inputs pass field validation and a custom validation step
\* adds an error, process() is not run, no atomic block is opened, nothing
\* is committed and post_process is not called.
C1_NoSideEffectAfterFailedValidation ==
    StepAddedError =>
        /\ scope = "none"
        /\ ~Has("process")
        /\ ~Has("atomic_enter")
        /\ ~Has("commit")
        /\ ~Has("savepoint_commit")
        /\ ~Has("post_process")

\* C2: when field validation finds an error, execute() raises
\* InvalidInputsError carrying the field error map; process() is not
\* invoked, no atomic block is opened and post_process never runs.
C2_FieldErrorAborts ==
    (~FieldsValid /\ pc # "constructed") =>
        /\ pc = "raised"
        /\ raised.type = "InvalidInputsError"
        /\ raised.errors = errors
        /\ DOMAIN raised.errors = {f \in Fields : inputs[f] # "ok"}
        /\ scope = "none"
        /\ invoked = <<>>
        /\ ~Has("process")
        /\ ~Has("atomic_enter")
        /\ ~Has("post_process")

C2_Witness ==
    /\ pc = "raised"
    /\ raised.type = "InvalidInputsError"
    /\ DOMAIN raised.errors # {}
    /\ outer = "committed"

\* C3: every omitted required field is in the error map of the one error
\* execute() raises, each with the message "This field is required.".
C3_EveryOmittedFieldReported ==
    pc # "constructed" =>
        \A f \in Fields :
            inputs[f] = "missing" =>
                /\ raised.type = "InvalidInputsError"
                /\ f \in DOMAIN raised.errors
                /\ raised.errors[f].shape = "list"
                /\ Len(raised.errors[f].list) = 1
                /\ raised.errors[f].list[1].message = "This field is required."

C3_Witness ==
    /\ pc = "raised"
    /\ \A f \in Fields : inputs[f] = "missing"
    /\ Cardinality(DOMAIN raised.errors) = NumFields
    /\ NumFields >= 2

C5_NoTransactionRunsHookBeforeReturn ==
    ~db_transaction =>
        /\ scope = "none"
        /\ ~Has("atomic_enter")
        /\ ~Has("commit")
        /\ ~Has("savepoint_commit")
        /\ ~Has("rollback")
        /\ hooks = 0
        /\ (run_post_process /\ ExecuteReturned) =>
              /\ Count("post_process") = 1
              /\ Precedes("process_return", "post_process")
              /\ Precedes("post_process", "execute_return")

C5_Witness ==
    /\ ~db_transaction
    /\ run_post_process
    /\ pc = "returned"
    /\ Has("post_process")

\* C6: with db_transaction the atomic block commits exactly when process()
\* returns normally; an exception raised inside process() leaves execute()
\* unchanged and the block is rolled back.
C6_CommitIffBodyReturns ==
    db_transaction =>
        /\ scope = "committed" <=> (Has("process_return") /\ pc # "body_returned")
        /\ scope = "committed" => thrown = NoExc
        /\ scope = "rolledback" <=> (Has("process_raise") /\ pc # "body_raised")
        /\ (Has("process_raise") /\ pc # "body_raised") =>
              /\ pc = "raised"
              /\ thrown # NoExc
              /\ raised = thrown
              /\ ~Has("commit")
              /\ ~Has("savepoint_commit")

C6_Witness ==
    /\ db_transaction
    /\ scope = "rolledback"
    /\ raised.type = "DoesNotExist"
    /\ viaOutcome

\* C7: constructing a ServiceOutcome raises ServiceObjectLogicError on any
\* accumulated error, field errors of form validation included, with the
\* accumulator as its error map.
C7_OutcomeFoldsFieldErrors ==
    (viaOutcome /\ Finished /\ errors # EmptyErrors /\ thrown = NoExc) =>
        /\ raised.type = "ServiceObjectLogicError"
        /\ raised.errors = errors

C9_LogicErrorCarriesAccumulatorAndStatus ==
    (viaOutcome /\ ExecuteReturned /\ pc # "returned" /\ errors # EmptyErrors) =>
        /\ pc = "raised"
        /\ raised.type = "ServiceObjectLogicError"
        /\ raised.errors = errors
        /\ response_status # NoStatus => raised.response_status = response_status
        /\ response_status = NoStatus => raised.response_status = 400
        /\ o_result = None

C9_Witness ==
    /\ viaOutcome
    /\ pc = "raised"
    /\ raised.type = "ServiceObjectLogicError"
    /\ raised.response_status = 404
    /\ Cardinality(DOMAIN raised.errors) = 2

\* C10: add_error with a field_index on a key that holds a list of
\* unindexed entries makes the key an indexed sub-mapping and keeps the
\* earlier entries.
C10_IndexedAddOnListKey ==
    (/\ call # NoCall
     /\ call.field_index # NoIndex
     /\ call.field \in DOMAIN call.prior
     /\ call.prior[call.field].shape = "list") =>
        /\ call.ok
        /\ errors[call.field].shape = "dict"
        /\ call.field_index \in DOMAIN errors[call.field].dict
        /\ Entries(call.prior[call.field]) \subseteq Entries(errors[call.field])

\* an add_error call is made by this step
AddErrorCalled == call'.seq = call.seq + 1

\* C11: an unindexed add_error on a key with no entries makes a one-element
\* list, on a key holding a list it appends at the end, and it leaves every
\* earlier entry (of this key and of every other key) in place.
C11_UnindexedAddAppends ==
    [][(/\ AddErrorCalled
        /\ call'.field_index = NoIndex
        /\ (call'.field \in DOMAIN errors => errors[call'.field].shape = "list"))
       =>
       (/\ call'.ok
        /\ call'.prior = errors
        /\ DOMAIN errors' = DOMAIN errors \cup {call'.field}
        /\ \A k \in DOMAIN errors : k # call'.field => errors'[k] = errors[k]
        /\ errors'[call'.field].shape = "list"
        /\ errors'[call'.field].list =
              (IF call'.field \in DOMAIN errors
               THEN errors[call'.field].list ELSE <<>>)
                  \o <<PreparedError(call'.error)>>)]_vars

C11_Witness ==
    /\ call.seq = 2
    /\ call.ok
    /\ call.field_index = NoIndex
    /\ errors[call.field].shape = "list"
    /\ Len(errors[call.field].list) = 2
    /\ errors[call.field].list[1] # errors[call.field].list[2]
    /\ errors[call.field].list[2] = PreparedError(call.error)

\* C12: run_custom_validations invokes the declared steps in declared order,
\* each once, and all of them by the time it returns; entries in the
\* accumulator do not keep the next declared step from being invoked.
C12_EveryStepInvokedInOrder ==
    /\ step \in 1..(Len(custom_validations) + 1)
    /\ invoked = SubSeq(custom_validations, 1, step - 1)
    /\ Has("process_return") => invoked = custom_validations
    /\ (pc = "process" /\ step <= Len(custom_validations)) =>
          ENABLED (ValidationPasses \/ ValidatePresenceUser)

C12_Witness ==
    /\ Has("process_return")
    /\ Len(custom_validations) = NumSteps
    /\ invoked = custom_validations
    /\ call.seq = NumSteps
    /\ call.ok
    /\ NumSteps >= 2

\* C13: when the converted error's debug_message was not explicitly set
\* (taxonomy errors built without one included), the payload's debug_message
\* is the string form of the exception; and the payload's status is 500 when
\* the error declares none.
C13_DebugMessageDefaultsToStr ==
    payload # NoPayload =>
        /\ (exc.type \notin ErrorKinds \/ ctor.debug_message = None) =>
              payload.debug_message = exc.str
        /\ exc.type \notin ErrorKinds => payload.response_status = 500

\* the response status each kind is documented to default to
DocumentedStatus ==
    [Error |-> 500, Unauthorized |-> 401, AuthenticationFailed |-> 401,
     AccessDenied |-> 423, NotFound |-> 404, ValidationError |-> 400,
     ForbiddenError |-> 403, ServiceObjectLogicError |-> 400]

\* C14: a taxonomy error built without overrides has the default status of
\* its kind, and a response_status, message or translation_key the caller
\* passes replaces the default of that instance.
C14_DefaultsAndOverrides ==
    ctor # NoCtor =>
        /\ exc.type = ctor.kind
        /\ ctor.response_status = NoStatus =>
              exc.response_status = DocumentedStatus[ctor.kind]
        /\ ctor.response_status # NoStatus =>
              exc.response_status = ctor.response_status
        /\ ctor.message # None => exc.message = ctor.message
        /\ ctor.translation_key # None =>
              exc.translation_key = ctor.translation_key
        /\ (ctor.message = None /\ ctor.kind = "NotFound") =>
              exc.message = "Resource not found"
        /\ (ctor.translation_key = None /\ ctor.kind = "NotFound") =>
              exc.translation_key = "not_found"

C14_Witness ==
    /\ ctor.kind = "AccessDenied"
    /\ ctor.response_status = NoStatus
    /\ exc.response_status = 423
    /\ ctor.message = "custom message"
    /\ exc.message = "custom message"
    /\ ctor.translation_key = None

\* the accumulator an instance reaches from `errs` by its own add_error calls
RECURSIVE ReplayErrors(_, _, _)
ReplayErrors(errs, added, i) ==
    IF i > Len(added) THEN errs
    ELSE ReplayErrors(
            AddError(errs, added[i].field, added[i].error,
                     added[i].field_index).errors,
            added, i + 1)

\* the response_status an instance reaches by its own assignments
RECURSIVE ReplayStatus(_, _, _)
ReplayStatus(status, added, i) ==
    IF i > Len(added) THEN status
    ELSE ReplayStatus(
            IF added[i].status = NoStatus THEN status ELSE added[i].status,
            added, i + 1)

\* C15: of two interleaved executions of one service class with different
\* inputs, each instance's errors, cleaned inputs, result and response
\* status come from its own inputs and its own steps only.
C15_ExecutionsIndependent ==
    \A e \in Execs :
        LET own == inst[e]
            cleaned == own.pc # "constructed"
        IN  /\ own.errors =
                  ReplayErrors(
                      IF cleaned
                      THEN FullClean([f \in Fields |-> KindOf(own.inputs[f])])
                      ELSE EmptyErrors,
                      own.added, 1)
            /\ own.cleaned_data =
                  (IF cleaned THEN CleanedData(own.inputs) ELSE <<>>)
            /\ own.response_status = ReplayStatus(NoStatus, own.added, 1)
            /\ own.result \in {None, own.inputs[1]}
            /\ own.result # None =>
                  (own.pc = "returned" /\ own.errors = EmptyErrors)

C15_Witness ==
    /\ inst[1].pc = "process"
    /\ inst[2].pc = "returned"
    /\ inst[1].errors # EmptyErrors
    /\ inst[2].errors = EmptyErrors
    /\ inst[2].result # None
    /\ inst[1].response_status # inst[2].response_status
    /\ inst[1].cleaned_data # inst[2].cleaned_data

\* the caller ran ServiceOutcome(RetrieveUserService, {'id': <integer>}) and
\* has control back
RetrieveFinished ==
    /\ service_class = "RetrieveUserService"
    /\ viaOutcome
    /\ inputs[IdField] = "ok"
    /\ Finished

\* C16: RetrieveUserService run through ServiceOutcome with an integer id of
\* no existing user raises a structured error whose error map holds, under
\* field id, the message "Not found user with id = <id>", with a resolved
\* response status of 404 or 400.
C16_MissingUserRaisesNotFound ==
    (RetrieveFinished /\ input_id \notin users) =>
        /\ raised.type = "ServiceObjectLogicError"
        /\ HasKey(raised.errors, IdField)
        /\ \E entry \in Entries(raised.errors[IdField]) :
              entry.message = NotFoundMessage(input_id)
        /\ raised.response_status \in {NOT_FOUND_STATUS, VALIDATION_ERROR_STATUS}

\* C17: RetrieveUserService run through ServiceOutcome with the id of an
\* existing user raises no error and yields a non-null result equal to that
\* user entity.
C17_ExistingUserReturned ==
    (RetrieveFinished /\ input_id \in users) =>
        /\ raised = NoExc
        /\ pc = "outcome_done"
        /\ o_result # None
        /\ o_result = UserEntity(input_id)

\* this step is a call of stop_process()
StopProcessCalled ==
    /\ Len(log') > Len(log)
    /\ log'[Len(log) + 1] = "stop_process"

\* C18: stop_process raises a ServiceObjectLogicError carrying the whole
\* accumulator and the response status (the service's override, else 400)
\* exactly when the accumulator is non-empty; with an empty accumulator it
\* raises nothing and leaves the service's state as it was.
C18_StopProcess ==
    [][StopProcessCalled =>
         IF errors # EmptyErrors
         THEN /\ pc' = "body_raised"
              /\ thrown'.type = "ServiceObjectLogicError"
              /\ thrown'.errors = errors
              /\ thrown'.response_status =
                    (IF response_status = NoStatus THEN 400
                     ELSE response_status)
              /\ UNCHANGED <<errors, result, response_status>>
         ELSE /\ pc' = "process"
              /\ thrown' = NoExc
              /\ UNCHANGED <<errors, result, response_status, step, invoked,
                             scope, hooks, raised, outcome_vars, call>>]_vars

C18_Witness ==
    /\ Has("stop_process")
    /\ pc = "body_raised"
    /\ thrown.type = "ServiceObjectLogicError"
    /\ thrown.errors = errors
    /\ Cardinality(DOMAIN errors) = 2
    /\ response_status = NOT_FOUND_STATUS
    /\ thrown.response_status = NOT_FOUND_STATUS

\* C19: when construction of a ServiceOutcome completes, the executed
\* service's accumulator is empty, valid is true, errors is empty and result
\* is the service's result; when the accumulator is non-empty, construction
\* raises and no ServiceOutcome carrying a result reaches the caller.
C19_ResultOrRaise ==
    /\ pc = "outcome_done" =>
          /\ viaOutcome
          /\ errors = EmptyErrors
          /\ OutcomeValid
          /\ o_errors = EmptyErrors
          /\ o_result = result
          /\ raised = NoExc
    /\ (viaOutcome /\ Finished /\ errors # EmptyErrors) =>
          /\ pc = "raised"
          /\ raised # NoExc
          /\ o_result = None
          /\ ~Has("outcome_return")

C19_Witness ==
    /\ viaOutcome
    /\ pc = "outcome_done"
    /\ Has("outcome_return")
    /\ OutcomeValid
    /\ o_result = result
    /\ result = "entity_a"
    /\ o_response_status = NoStatus

\* the form of an add_error call: the shape it gives a key it creates
FormOf(field_index) == IF field_index = NoIndex THEN "list" ELSE "dict"

\* C20: within one execution a scope key keeps the shape it was first
\* written with (a list for an unindexed add_error, an index-to-list mapping
\* for an indexed one); an add_error call of the other form on that key
\* fails with an error and leaves the accumulator unchanged.
C20_ShapeNeverChanges ==
    [][/\ \A f \in DOMAIN errors :
             /\ f \in DOMAIN errors'
             /\ errors'[f].shape = errors[f].shape
       /\ AddErrorCalled =>
             LET field == call'.field
                 form == FormOf(call'.field_index)
             IN  IF ~HasKey(errors, field)
                 THEN /\ call'.ok
                      /\ errors'[field].shape = form
                 ELSE IF errors[field].shape = form
                 THEN /\ call'.ok
                      /\ errors' # errors
                 ELSE /\ ~call'.ok
                      /\ errors' = errors
                      /\ pc' = "body_raised"
                      /\ thrown'.type = "AttributeError"]_vars

C20_Witness ==
    /\ call.seq = 2
    /\ ~call.ok
    /\ call.field_index = NoIndex
    /\ errors = call.prior
    /\ HasKey(errors, call.field)
    /\ errors[call.field].shape = "dict"
    /\ pc = "body_raised"
    /\ thrown.type = "AttributeError"

\* process() raised: an exception left the body
BodyRaised == Has("process_raise")

====
